---- MODULE Spec2Model ----
(***************************************************************************)
(* Model of the chat-turn engine of ai_engineer_assessment:                *)
(*   app/commands/threads/process_chat_message.py  (ProcessChatMessageCommand) *)
(*   app/services/llm/response_quality.py          (ResponseQualityService)    *)
(*   app/services/llm/tools/text_to_sql.py         (ensure_limit, text_to_sql) *)
(* Python dicts are records whose DOMAIN is the set of keys present, Python *)
(* str values that the code inspects character by character are sequences   *)
(* of one-character strings, and Python None is the string "None".          *)
(***************************************************************************)
EXTENDS Integers, Sequences, FiniteSets, TLC

None == "None"

\* ------------------------------------------------------------------ bounds
\* longest input history
MaxHist == 2
\* most tool calls in one model response
MaxCalls == 3

\* ------------------------------------------------------------ state
VARIABLES
    history0,       \* the history the caller passed to __init__ (kept for comparison)
    chat_messages,  \* self.chat_messages, the caller's list, mutated in place
    enable,         \* current_app.config ENABLE_RESPONSE_QUALITY_IMPROVEMENT
    pc,             \* position in execute
    response,       \* the object returned by llm_session.chat
    response_message, \* the assistant message being built
    tool_messages,  \* local list tool_messages
    sql_result,     \* local sql_result
    ti,             \* index of the next tool call of the for loop
    uuid,           \* number of uuid4() values drawn so far
    calls,          \* external calls made so far, in order
    evaluation,     \* the dict returned by evaluate_response_quality
    loop_in,        \* arguments process_response_with_quality_improvement got
    loop_out,       \* what process_response_with_quality_improvement returned
    chat_exc,       \* the exception llm_session.chat raised, if it raised
    err             \* the exception that left execute

execVars == <<history0, chat_messages, enable, pc, response, response_message,
              tool_messages, sql_result, ti, uuid, calls, evaluation, loop_in,
              loop_out, chat_exc, err>>

\* ensure_limit applied once and then again to its own result
VARIABLES
    lim_pc,         \* "input", "once" or "twice"
    lim_sql,        \* the SQL text given
    lim_n,          \* default_limit
    lim_once,       \* ensure_limit(lim_sql, lim_n)
    lim_twice       \* ensure_limit(lim_once, lim_n)

limVars == <<lim_pc, lim_sql, lim_n, lim_once, lim_twice>>

\* one run of the text_to_sql tool
VARIABLES
    tool_pc,        \* position in text_to_sql
    generated_sql,  \* local generated_sql
    executed,       \* the SQL texts handed to datastore.execute, in order
    tool_return,    \* what text_to_sql returned
    tool_err        \* the exception that left text_to_sql

toolVars == <<tool_pc, generated_sql, executed, tool_return, tool_err>>

\* one call of evaluate_response_quality
VARIABLES
    as_pc,          \* "input", "evaluated" or "failed"
    as_text,        \* the critique the evaluation call returns
    as_eval,        \* the dict evaluate_response_quality returned
    as_calls        \* number of model calls evaluate_response_quality made

assessVars == <<as_pc, as_text, as_eval, as_calls>>

\* one run of execute_stream and its consumer
VARIABLES
    s_pc,           \* position of the generator execute_stream
    demand,         \* the consumer has asked for the next event (next() is running)
    events,         \* the events yielded so far, in order
    chunk,          \* the chunk of the model stream being handled
    s_ti,           \* index of the next tool call of that chunk
    s_chunks,       \* number of chunks the model stream has delivered
    s_deltas,       \* number of tool-call deltas the model stream has delivered
    stream_open,    \* the model stream (response_stream) holds its connection
    stream_exc,     \* the exception the model client raised, if it raised
    s_err           \* the exception that reached the consumer

streamVars == <<s_pc, demand, events, chunk, s_ti, s_chunks, s_deltas,
                stream_open, stream_exc, s_err>>

\* the variables of execute that execute_stream does not share
execLocals == <<enable, pc, response, response_message, tool_messages, sql_result,
                ti, uuid, evaluation, loop_in, loop_out, chat_exc, err>>

vars == <<execVars, limVars, toolVars, assessVars, streamVars>>

\* a step of execute, of ensure_limit, of text_to_sql, of
\* evaluate_response_quality leaves the others alone
ExecOnly == UNCHANGED <<limVars, toolVars, assessVars, streamVars>>
LimOnly == UNCHANGED <<execVars, toolVars, assessVars, streamVars>>
ToolOnly == UNCHANGED <<execVars, limVars, assessVars, streamVars>>
AssessOnly == UNCHANGED <<execVars, limVars, toolVars, streamVars>>
StreamOnly == UNCHANGED <<execLocals, history0, limVars, toolVars, assessVars>>

\* ------------------------------------------------------------ strings
\* One-character strings; a str the code scans is a sequence of them.
LowerOf(c) ==
    CASE c = "A" -> "a" [] c = "B" -> "b" [] c = "C" -> "c" [] c = "D" -> "d"
      [] c = "E" -> "e" [] c = "F" -> "f" [] c = "G" -> "g" [] c = "H" -> "h"
      [] c = "I" -> "i" [] c = "K" -> "k" [] c = "L" -> "l" [] c = "M" -> "m"
      [] c = "N" -> "n" [] c = "O" -> "o" [] c = "P" -> "p" [] c = "R" -> "r"
      [] c = "S" -> "s" [] c = "T" -> "t" [] c = "U" -> "u" [] c = "V" -> "v"
      [] OTHER -> c

\* str.lower()
lower(s) == [i \in 1..Len(s) |-> LowerOf(s[i])]

\* keyword in text
Contains(text, kw) ==
    \E i \in 1..(Len(text) - Len(kw) + 1) : SubSeq(text, i, i + Len(kw) - 1) = kw

\* ------------------------------------------------------------ input data
\* Messages a caller can pass in (dicts with role and content).
InputMessages ==
    { [role |-> "user", content |-> "q1"],
      [role |-> "user", content |-> "q2"],
      [role |-> "assistant", content |-> "a0"] }

Histories == UNION { [1..n -> InputMessages] : n \in 0..MaxHist }

\* function.arguments texts: the first is JSON, the second is not
GoodArgs == "{\"query\": \"top customers\"}"
BadArgs == "{\"query\": "

\* json.loads succeeds on this text
JsonValid(text) == text = GoodArgs

\* tool_call objects of a model response
SampleCalls ==
    { [id |-> "call_1", name |-> "text_to_sql", arguments |-> GoodArgs],
      [id |-> "call_2", name |-> "lookup", arguments |-> GoodArgs],
      [id |-> "call_1", name |-> "text_to_sql", arguments |-> BadArgs] }

CallLists == UNION { [1..n -> SampleCalls] : n \in 0..MaxCalls }

FinishReasons == {"stop", "length", "tool_calls"}

\* response.choices[0]: message.content, finish_reason and message.tool_calls
\* (the key is absent when message.tool_calls is None)
Responses ==
    { [content |-> c, finish_reason |-> f, tool_calls |-> t] :
        c \in {None, "a1"}, f \in FinishReasons, t \in CallLists }
    \cup { [content |-> c, finish_reason |-> f] : c \in {None, "a1"}, f \in FinishReasons }

\* what toolkit.run_tool does: return a str, return a structured value, or raise
ToolOutcomes ==
    { [kind |-> "str", val |-> "| Name |"],
      [kind |-> "obj", val |-> "rows"],
      [kind |-> "raise", val |-> "tool failed"] }

NoResult == [kind |-> "none", val |-> None]

\* json.dumps of a structured tool result
json_dumps(val) == "{\"" \o val \o "\": 1}"

\* exceptions llm_session.chat can raise
ChatExceptions ==
    { [type |-> "BadRequestError", msg |-> "400 invalid messages"],
      [type |-> "BadRequestError", msg |-> "400 context too long"],
      [type |-> "APITimeoutError", msg |-> "timed out"],
      [type |-> "RateLimitError", msg |-> "429 quota"] }

NoErr == [type |-> "none", msg |-> ""]

ValidationException(m) == [type |-> "ValidationException", msg |-> m]

\* critique texts the evaluation call can return
Critiques ==
    { <<"A","c","c","u","r","a","t","e",".">>,
      <<"U","n","c","l","e","a","r">>,
      <<"I","t"," ","S","H","O","U","L","D"," ","c","i","t","e">> }

\* revisions the improvement call can return
Revisions == {"a1", "a2", None}

ErrorInEvaluation == <<"E","r","r","o","r"," ","i","n"," ","e","v","a","l","u","a","t","i","o","n">>

NoEval == [evaluation |-> <<>>, needs_improvement |-> FALSE]

NoLoopIn == [user_question |-> "", response |-> None, sql_result |-> NoResult,
             enable_improvement |-> FALSE]

\* ------------------------------------------------------------ helpers
improvement_keywords ==
    << <<"i","m","p","r","o","v","e">>,
       <<"e","n","h","a","n","c","e">>,
       <<"b","e","t","t","e","r">>,
       <<"c","o","u","l","d"," ","b","e">>,
       <<"s","h","o","u","l","d">>,
       <<"n","e","e","d","s">>,
       <<"l","a","c","k","i","n","g">>,
       <<"m","i","s","s","i","n","g">>,
       <<"u","n","c","l","e","a","r">>,
       <<"c","o","n","f","u","s","i","n","g">>,
       <<"i","n","c","o","m","p","l","e","t","e">> >>

assess_case_sensitive(evaluation_text) ==
    \E k \in 1..Len(improvement_keywords) :
        Contains(evaluation_text, improvement_keywords[k])

\* ResponseQualityService._assess_improvement_needed
assess_improvement_needed(evaluation_text) ==
    LET evaluation_lower == lower(evaluation_text)
    IN  \E k \in 1..Len(improvement_keywords) :
            Contains(evaluation_lower, improvement_keywords[k])

\* ProcessChatMessageCommand.format_message (the timestamp key is left out:
\* nothing reads it); kwargs win over the fixed keys
format_message(u, role, content, kwargs) ==
    kwargs @@ [id |-> u, role |-> role, content |-> content]

RECURSIVE scan_user(_, _)
scan_user(msgs, i) ==
    IF i = 0 THEN ""
    ELSE IF "role" \in DOMAIN msgs[i] /\ msgs[i].role = "user"
         THEN IF "content" \in DOMAIN msgs[i] THEN msgs[i].content ELSE ""
         ELSE scan_user(msgs, i - 1)

get_user_question_first(msgs) ==
    LET users == { i \in 1..Len(msgs) : msgs[i].role = "user" }
    IN  IF users = {} THEN ""
        ELSE msgs[CHOOSE i \in users : \A j \in users : i <= j].content

\* ProcessChatMessageCommand.get_user_question
get_user_question(msgs) == scan_user(msgs, Len(msgs))

\* the tool_calls array of the assistant message
tool_calls_array(tool_calls) ==
    [i \in 1..Len(tool_calls) |->
        [id |-> tool_calls[i].id,
         type |-> "function",
         function |-> [name |-> tool_calls[i].name,
                       arguments |-> tool_calls[i].arguments]]]

\* ------------------------------------------------------------ execute
\* ProcessChatMessageCommand.__init__ with the caller's list
ExecInit ==
    /\ history0 \in Histories
    /\ chat_messages = history0
    /\ enable \in BOOLEAN
    /\ pc = "start"
    /\ response = [content |-> None, finish_reason |-> "none"]
    /\ response_message = [role |-> "none"]
    /\ tool_messages = <<>>
    /\ sql_result = NoResult
    /\ ti = 1
    /\ uuid = 0
    /\ calls = <<>>
    /\ evaluation = NoEval
    /\ loop_in = NoLoopIn
    /\ loop_out = None
    /\ chat_exc = NoErr
    /\ err = NoErr

\* an exception leaves execute
Raise(e) ==
    /\ pc' = "raised"
    /\ err' = e

Validate_unchecked ==
    /\ ExecOnly
    /\ pc = "start"
    /\ pc' = "chat"
    /\ UNCHANGED <<history0, chat_messages, enable, response, response_message,
                   tool_messages, sql_result, ti, uuid, calls, evaluation,
                   loop_in, loop_out, chat_exc, err>>

\* validate(): "if not self.chat_messages"
Validate ==
    /\ ExecOnly
    /\ pc = "start"
    /\ IF Len(chat_messages) = 0
       THEN Raise(ValidationException("Chat messages are required."))
       ELSE pc' = "chat" /\ UNCHANGED err
    /\ UNCHANGED <<history0, chat_messages, enable, response, response_message,
                   tool_messages, sql_result, ti, uuid, calls, evaluation,
                   loop_in, loop_out, chat_exc>>

\* prepare_chat_messages() raises (history trimming or the schema lookup of
\* chat_prompt): it runs before the try block
PrepareRaise ==
    /\ ExecOnly
    /\ pc = "chat"
    /\ Raise([type |-> "PrepareError", msg |-> "schema lookup failed"])
    /\ UNCHANGED <<history0, chat_messages, enable, response, response_message,
                   tool_messages, sql_result, ti, uuid, calls, evaluation,
                   loop_in, loop_out, chat_exc>>

chat_error_leaky(e) ==
    IF e.type = "BadRequestError"
    THEN e
    ELSE ValidationException(e.msg)

\* what the except clauses around llm_session.chat raise for exception e
chat_error(e) ==
    IF e.type = "BadRequestError"
    THEN e
    ELSE ValidationException("Error in fetching chat response.")

\* llm_session.chat raises
ChatRaise ==
    /\ ExecOnly
    /\ pc = "chat"
    /\ \E e \in ChatExceptions :
        /\ chat_exc' = e
        /\ Raise(chat_error(e))
    /\ calls' = Append(calls, [op |-> "chat"])
    /\ UNCHANGED <<history0, chat_messages, enable, response, response_message,
                   tool_messages, sql_result, ti, uuid, evaluation,
                   loop_in, loop_out>>

is_tool_invocation_any(r) == "tool_calls" \in DOMAIN r /\ Len(r.tool_calls) > 0

\* the response takes the tool branch
is_tool_invocation(r) == r.finish_reason = "tool_calls"

\* llm_session.chat returns r; the assistant message is built
ChatOk ==
    /\ ExecOnly
    /\ pc = "chat"
    /\ \E r \in Responses :
        /\ response' = r
        /\ IF is_tool_invocation(r)
           THEN IF "tool_calls" \in DOMAIN r
                THEN /\ response_message' =
                            format_message(uuid, "assistant", r.content,
                                [finish_reason |-> r.finish_reason,
                                 tool_calls |-> tool_calls_array(r.tool_calls)])
                     /\ uuid' = uuid + 1
                     /\ pc' = IF Len(r.tool_calls) > 0 THEN "tools" ELSE "quality"
                     /\ UNCHANGED err
                ELSE \* iterating over None
                     /\ Raise([type |-> "TypeError", msg |-> "NoneType is not iterable"])
                     /\ UNCHANGED <<response_message, uuid>>
           ELSE /\ response_message' =
                       format_message(uuid, "assistant", r.content,
                           [finish_reason |-> r.finish_reason])
                /\ uuid' = uuid + 1
                /\ pc' = "quality"
                /\ UNCHANGED err
    /\ calls' = Append(calls, [op |-> "chat"])
    /\ UNCHANGED <<history0, chat_messages, enable, tool_messages, sql_result,
                   ti, evaluation, loop_in, loop_out, chat_exc>>

\* execute_tool_call: json.loads(tool_call.function.arguments) raises
ToolArgsRaise ==
    /\ ExecOnly
    /\ pc = "tools"
    /\ ~JsonValid(response.tool_calls[ti].arguments)
    /\ Raise([type |-> "JSONDecodeError", msg |-> "Expecting value"])
    /\ UNCHANGED <<history0, chat_messages, enable, response, response_message,
                   tool_messages, sql_result, ti, uuid, calls, evaluation,
                   loop_in, loop_out, chat_exc>>

\* the entry the dispatcher invocation leaves in the call log
tool_invocation(i, tc, o) ==
    [op |-> "tool", index |-> i, id |-> tc.id, name |-> tc.name, result |-> o]

\* toolkit.run_tool raises
ToolRunRaise ==
    /\ ExecOnly
    /\ pc = "tools"
    /\ JsonValid(response.tool_calls[ti].arguments)
    /\ \E o \in ToolOutcomes :
        /\ o.kind = "raise"
        /\ calls' = Append(calls, tool_invocation(ti, response.tool_calls[ti], o))
        /\ Raise([type |-> "ToolError", msg |-> o.val])
    /\ UNCHANGED <<history0, chat_messages, enable, response, response_message,
                   tool_messages, sql_result, ti, uuid, evaluation,
                   loop_in, loop_out, chat_exc>>

tool_message_own_id(u, tc, o) ==
    format_message(u, "tool",
        IF o.kind = "str" THEN o.val ELSE json_dumps(o.val),
        [tool_call_id |-> tc.name])

\* the tool message of tool_call tc whose run returned o
tool_message(u, tc, o) ==
    format_message(u, "tool",
        IF o.kind = "str" THEN o.val ELSE json_dumps(o.val),
        [tool_call_id |-> tc.id])

collect_front(msgs, local, m) == [chat_messages |-> msgs, tool_messages |-> <<m>> \o local]

collect_eager(msgs, local, m) == [chat_messages |-> Append(msgs, m), tool_messages |-> local]

\* tool_messages.append(...): the message goes to the local list, the
\* caller's list is not touched
collect(msgs, local, m) == [chat_messages |-> msgs, tool_messages |-> Append(local, m)]

\* one pass of the for loop: toolkit.run_tool returns
ToolRunOk ==
    /\ ExecOnly
    /\ pc = "tools"
    /\ JsonValid(response.tool_calls[ti].arguments)
    /\ \E o \in ToolOutcomes :
        /\ o.kind # "raise"
        /\ calls' = Append(calls, tool_invocation(ti, response.tool_calls[ti], o))
        /\ sql_result' = IF response.tool_calls[ti].name = "text_to_sql"
                         THEN o ELSE sql_result
        /\ LET after == collect(chat_messages, tool_messages,
                                tool_message(uuid, response.tool_calls[ti], o))
           IN  /\ tool_messages' = after.tool_messages
               /\ chat_messages' = after.chat_messages
    /\ uuid' = uuid + 1
    /\ ti' = ti + 1
    /\ pc' = IF ti = Len(response.tool_calls) THEN "quality" ELSE "tools"
    /\ UNCHANGED <<history0, enable, response, response_message,
                   evaluation, loop_in, loop_out, chat_exc, err>>

\* ------------------------------------------------------------ response quality loop
\* the arguments execute passes to process_response_with_quality_improvement
LoopArgs ==
    [user_question |-> get_user_question(chat_messages),
     response |-> response_message.content,
     sql_result |-> sql_result,
     enable_improvement |-> enable]

\* the entry a model call of the loop leaves in the call log
loop_call(op, ok, out) == [op |-> op, ok |-> ok, out |-> out]

loop_enabled_always(args) == TRUE

\* process_response_with_quality_improvement: the test of "if not enable_improvement"
loop_enabled(args) == args.enable_improvement

\* process_response_with_quality_improvement: the flag is off
LoopDisabled ==
    /\ ExecOnly
    /\ pc = "quality"
    /\ ~loop_enabled(LoopArgs)
    /\ loop_in' = LoopArgs
    /\ loop_out' = LoopArgs.response
    /\ pc' = "commit"
    /\ UNCHANGED <<history0, chat_messages, enable, response, response_message,
                   tool_messages, sql_result, ti, uuid, calls, evaluation,
                   chat_exc, err>>

after_evaluation_unflagged(ev) == pc' = "improve" /\ UNCHANGED loop_out

\* what process_response_with_quality_improvement does with the evaluation
\* dict ev: go on to improve_response, or return the response
after_evaluation(ev) ==
    IF ev.needs_improvement
    THEN pc' = "improve" /\ UNCHANGED loop_out
    ELSE pc' = "commit" /\ loop_out' = LoopArgs.response

\* evaluate_response_quality: the model call or the reading of its content
\* raises; the except clause returns the fixed dict
EvalRaise ==
    /\ ExecOnly
    /\ pc = "quality"
    /\ loop_enabled(LoopArgs)
    /\ loop_in' = LoopArgs
    /\ calls' = Append(calls, loop_call("eval", FALSE, <<>>))
    /\ evaluation' = [evaluation |-> ErrorInEvaluation, needs_improvement |-> FALSE]
    /\ after_evaluation(evaluation')
    /\ UNCHANGED <<history0, chat_messages, enable, response, response_message,
                   tool_messages, sql_result, ti, uuid, chat_exc, err>>

\* evaluate_response_quality: the model returns a critique
EvalOk ==
    /\ ExecOnly
    /\ pc = "quality"
    /\ loop_enabled(LoopArgs)
    /\ loop_in' = LoopArgs
    /\ \E c \in Critiques :
        /\ calls' = Append(calls, loop_call("eval", TRUE, c))
        /\ evaluation' = [evaluation |-> c,
                          needs_improvement |-> assess_improvement_needed(c)]
    /\ after_evaluation(evaluation')
    /\ UNCHANGED <<history0, chat_messages, enable, response, response_message,
                   tool_messages, sql_result, ti, uuid, chat_exc, err>>

\* improve_response: the model returns a revision
ImproveOk ==
    /\ ExecOnly
    /\ pc = "improve"
    /\ \E rev \in Revisions :
        /\ calls' = Append(calls, loop_call("improve", TRUE, rev))
        /\ loop_out' = rev
    /\ pc' = "commit"
    /\ UNCHANGED <<history0, chat_messages, enable, response, response_message,
                   tool_messages, sql_result, ti, uuid, evaluation, loop_in,
                   chat_exc, err>>

ImproveRaise_uncaught ==
    /\ ExecOnly
    /\ pc = "improve"
    /\ calls' = Append(calls, loop_call("improve", FALSE, None))
    /\ Raise([type |-> "APITimeoutError", msg |-> "timed out"])
    /\ UNCHANGED <<history0, chat_messages, enable, response, response_message,
                   tool_messages, sql_result, ti, uuid, evaluation, loop_in,
                   loop_out, chat_exc>>

\* improve_response: the model call raises; the except clause returns
\* original_response
ImproveRaise ==
    /\ ExecOnly
    /\ pc = "improve"
    /\ calls' = Append(calls, loop_call("improve", FALSE, None))
    /\ loop_out' = loop_in.response
    /\ pc' = "commit"
    /\ UNCHANGED <<history0, chat_messages, enable, response, response_message,
                   tool_messages, sql_result, ti, uuid, evaluation, loop_in,
                   chat_exc, err>>

\* the assistant message after "if improved_content != response_message[content]"
committed_message(msg, improved_content) ==
    IF improved_content # msg.content
    THEN [msg EXCEPT !.content = improved_content]
    ELSE msg

commit_tools_first(msgs, msg, tools) == (msgs \o tools) \o <<msg>>

\* chat_messages.append(response_message); chat_messages.extend(tool_messages)
commit(msgs, msg, tools) == (msgs \o <<msg>>) \o tools

\* the end of execute
Commit ==
    /\ ExecOnly
    /\ pc = "commit"
    /\ response_message' = committed_message(response_message, loop_out)
    /\ chat_messages' = commit(chat_messages, response_message', tool_messages)
    /\ pc' = "done"
    /\ UNCHANGED <<history0, enable, response, tool_messages, sql_result, ti,
                   uuid, calls, evaluation, loop_in, loop_out, chat_exc, err>>

ExecNext ==
    \/ Validate
    \/ PrepareRaise
    \/ ChatRaise
    \/ ChatOk
    \/ ToolArgsRaise
    \/ ToolRunRaise
    \/ ToolRunOk
    \/ LoopDisabled
    \/ EvalRaise
    \/ EvalOk
    \/ ImproveOk
    \/ ImproveRaise
    \/ Commit

\* execute is not running
ExecIdle ==
    /\ history0 = <<>>
    /\ chat_messages = <<>>
    /\ enable = FALSE
    /\ pc = "idle"
    /\ response = [content |-> None, finish_reason |-> "none"]
    /\ response_message = [role |-> "none"]
    /\ tool_messages = <<>>
    /\ sql_result = NoResult
    /\ ti = 1
    /\ uuid = 0
    /\ calls = <<>>
    /\ evaluation = NoEval
    /\ loop_in = NoLoopIn
    /\ loop_out = None
    /\ chat_exc = NoErr
    /\ err = NoErr

\* ------------------------------------------------------------ ensure_limit
\* most fragments in a SQL text
MaxFrags == 3

\* the default of default_limit, and the value text_to_sql passes
DefaultLimit == 20

\* pieces SQL texts are put together from
SqlFragments ==
    { <<"L","I","M","I","T">>,
      <<"L","i","M","i","t">>,
      <<"x">>,
      <<"_">>,
      <<" ">>,
      <<";">>,
      <<"'","l","i","m","i","t","'">> }

RECURSIVE Flatten(_)
Flatten(parts) == IF parts = <<>> THEN <<>> ELSE Head(parts) \o Flatten(Tail(parts))

SqlTexts == { Flatten(parts) : parts \in UNION { [1..n -> SqlFragments] : n \in 0..MaxFrags } }

Limits == {5, DefaultLimit}

\* \w of the re module, on the characters of the model
IsWordChar(c) ==
    c \in {"A","B","C","D","E","F","G","H","I","K","L","M","N","O","P","R","S","T","U","V",
           "a","b","c","d","e","f","g","h","i","k","l","m","n","o","p","r","s","t","u","v",
           "x","_","0","1","2","3","4","5","6","7","8","9"}

\* re.search(r'\bLIMIT\b', sql, re.IGNORECASE)
has_limit(sql) ==
    \E i \in 1..(Len(sql) - 4) :
        /\ lower(SubSeq(sql, i, i + 4)) = <<"l","i","m","i","t">>
        /\ (i = 1 \/ ~IsWordChar(sql[i - 1]))
        /\ (i + 4 = Len(sql) \/ ~IsWordChar(sql[i + 5]))

\* sql.rstrip(';')
RECURSIVE rstrip_semicolons(_)
rstrip_semicolons(sql) ==
    IF sql # <<>> /\ sql[Len(sql)] = ";"
    THEN rstrip_semicolons(SubSeq(sql, 1, Len(sql) - 1))
    ELSE sql

DigitChar(d) ==
    CASE d = 0 -> "0" [] d = 1 -> "1" [] d = 2 -> "2" [] d = 3 -> "3" [] d = 4 -> "4"
      [] d = 5 -> "5" [] d = 6 -> "6" [] d = 7 -> "7" [] d = 8 -> "8" [] d = 9 -> "9"

\* str(n) of a natural number, as the f-string formats it
RECURSIVE str_of_int(_)
str_of_int(n) ==
    IF n < 10 THEN <<DigitChar(n)>>
    ELSE Append(str_of_int(n \div 10), DigitChar(n % 10))

ensure_limit_nospace(sql, default_limit) ==
    IF has_limit(sql)
    THEN sql
    ELSE rstrip_semicolons(sql) \o <<"L","I","M","I","T"," ">> \o str_of_int(default_limit) \o <<";">>

\* ensure_limit
ensure_limit(sql, default_limit) ==
    IF has_limit(sql)
    THEN sql
    ELSE rstrip_semicolons(sql) \o <<" ","L","I","M","I","T"," ">> \o str_of_int(default_limit) \o <<";">>

LimIdle ==
    /\ lim_pc = "idle"
    /\ lim_sql = <<>>
    /\ lim_n = 0
    /\ lim_once = <<>>
    /\ lim_twice = <<>>

LimInit ==
    /\ lim_pc = "input"
    /\ lim_sql \in SqlTexts
    /\ lim_n \in Limits
    /\ lim_once = <<>>
    /\ lim_twice = <<>>

\* ensure_limit(sql, n)
ApplyOnce ==
    /\ LimOnly
    /\ lim_pc = "input"
    /\ lim_once' = ensure_limit(lim_sql, lim_n)
    /\ lim_pc' = "once"
    /\ UNCHANGED <<lim_sql, lim_n, lim_twice>>

\* ensure_limit(ensure_limit(sql, n), n)
ApplyTwice ==
    /\ LimOnly
    /\ lim_pc = "once"
    /\ lim_twice' = ensure_limit(lim_once, lim_n)
    /\ lim_pc' = "twice"
    /\ UNCHANGED <<lim_sql, lim_n, lim_once>>

LimNext == ApplyOnce \/ ApplyTwice

\* C10: ensure_limit is idempotent: applied to its own result with the same
\* limit it returns that result.
C10_Idempotent == lim_pc = "twice" => lim_twice = lim_once

C10_Witness ==
    /\ lim_pc = "twice"
    /\ ~has_limit(lim_sql)
    /\ Len(lim_sql) >= 2
    /\ lim_sql[Len(lim_sql)] = ";"
    /\ lim_once # lim_sql

\* the clause ensure_limit is to add for limit n
limit_clause(n) == <<" ","L","I","M","I","T"," ">> \o str_of_int(n) \o <<";">>

\* text with the white space at its end removed
RECURSIVE without_trailing_space(_)
without_trailing_space(text) ==
    IF text # <<>> /\ text[Len(text)] = " "
    THEN without_trailing_space(SubSeq(text, 1, Len(text) - 1))
    ELSE text

\* out ends in the clause and no terminator ends the statement before it
ends_in_one_terminator(out, n) ==
    /\ Len(out) >= Len(limit_clause(n))
    /\ SubSeq(out, Len(out) - Len(limit_clause(n)) + 1, Len(out)) = limit_clause(n)
    /\ LET before == without_trailing_space(SubSeq(out, 1, Len(out) - Len(limit_clause(n))))
       IN  before = <<>> \/ before[Len(before)] # ";"

\* C11: a SQL text that contains the LIMIT keyword in any letter case comes
\* back unchanged; any other text, whatever follows its terminator, comes
\* back with the LIMIT clause before the trailing terminator, ending in
\* exactly one terminator.
C11_LimitBeforeTerminator ==
    lim_pc # "input" =>
        IF has_limit(lim_sql)
        THEN lim_once = lim_sql
        ELSE ends_in_one_terminator(lim_once, lim_n)

\* ------------------------------------------------------------ text_to_sql
ToolIdle ==
    /\ tool_pc = "idle"
    /\ generated_sql = <<>>
    /\ executed = <<>>
    /\ tool_return = None
    /\ tool_err = NoErr

\* text_to_sql(query) is called
ToolInit ==
    /\ tool_pc = "start"
    /\ generated_sql = <<>>
    /\ executed = <<>>
    /\ tool_return = None
    /\ tool_err = NoErr

\* an exception leaves text_to_sql
ToolRaise(e) ==
    /\ tool_pc' = "raised"
    /\ tool_err' = e
    /\ UNCHANGED <<generated_sql, executed, tool_return>>

\* the except clause of text_to_sql: the error string is returned
ToolCaught(e) ==
    /\ tool_pc' = "returned"
    /\ tool_return' = "Error generating or executing SQL: " \o e.msg
    /\ UNCHANGED tool_err

\* DuckDBDatastore(database=...) succeeds
DatastoreSetupOk ==
    /\ ToolOnly
    /\ tool_pc = "start"
    /\ tool_pc' = "session"
    /\ UNCHANGED <<generated_sql, executed, tool_return, tool_err>>

\* DuckDBDatastore(database=...) raises: the call is outside every try block
DatastoreSetupRaise ==
    /\ ToolOnly
    /\ tool_pc = "start"
    /\ ToolRaise([type |-> "IOException", msg |-> "cannot open app/data/data.db"])

\* LLMSession(...) is built from current_app.config
SessionOk ==
    /\ ToolOnly
    /\ tool_pc = "session"
    /\ tool_pc' = "generate"
    /\ UNCHANGED <<generated_sql, executed, tool_return, tool_err>>

\* RuntimeError (no application context): the except clause builds the
\* session from the default model names
SessionNoAppContext ==
    /\ ToolOnly
    /\ tool_pc = "session"
    /\ tool_pc' = "fallback"
    /\ UNCHANGED <<generated_sql, executed, tool_return, tool_err>>

\* LLMSession(...) raises something that is not a RuntimeError
SessionRaise ==
    /\ ToolOnly
    /\ tool_pc = "session"
    /\ ToolRaise([type |-> "OpenAIError", msg |-> "api_key must be set"])

\* the fallback LLMSession(...) succeeds
FallbackOk ==
    /\ ToolOnly
    /\ tool_pc = "fallback"
    /\ tool_pc' = "generate"
    /\ UNCHANGED <<generated_sql, executed, tool_return, tool_err>>

\* the fallback LLMSession(...) raises inside the except clause
FallbackRaise ==
    /\ ToolOnly
    /\ tool_pc = "fallback"
    /\ ToolRaise([type |-> "OpenAIError", msg |-> "api_key must be set"])

\* get_structured_output returns a query; ensure_limit post-processes it
GenerateOk ==
    /\ ToolOnly
    /\ tool_pc = "generate"
    /\ \E q \in SqlTexts : generated_sql' = ensure_limit(q, DefaultLimit)
    /\ tool_pc' = "execute"
    /\ UNCHANGED <<executed, tool_return, tool_err>>

\* get_structured_output raises
GenerateRaise ==
    /\ ToolOnly
    /\ tool_pc = "generate"
    /\ ToolCaught([type |-> "APITimeoutError", msg |-> "timed out"])
    /\ UNCHANGED <<generated_sql, executed>>

\* ensure_limit raises (sql_result.query is not a str)
PostProcessRaise ==
    /\ ToolOnly
    /\ tool_pc = "generate"
    /\ ToolCaught([type |-> "TypeError", msg |-> "expected string or bytes-like object"])
    /\ UNCHANGED <<generated_sql, executed>>

\* datastore.execute returns a table
ExecuteTable ==
    /\ ToolOnly
    /\ tool_pc = "execute"
    /\ executed' = Append(executed, generated_sql)
    /\ tool_pc' = "render"
    /\ UNCHANGED <<generated_sql, tool_return, tool_err>>

\* datastore.execute returns None
ExecuteNone ==
    /\ ToolOnly
    /\ tool_pc = "execute"
    /\ executed' = Append(executed, generated_sql)
    /\ tool_pc' = "returned"
    /\ tool_return' = "No data found."
    /\ UNCHANGED <<generated_sql, tool_err>>

\* datastore.execute raises
ExecuteRaise ==
    /\ ToolOnly
    /\ tool_pc = "execute"
    /\ executed' = Append(executed, generated_sql)
    /\ ToolCaught([type |-> "CatalogException", msg |-> "Table sales_data does not exist"])
    /\ UNCHANGED generated_sql

\* result.to_markdown returns the table text
RenderOk ==
    /\ ToolOnly
    /\ tool_pc = "render"
    /\ tool_pc' = "returned"
    /\ tool_return' = "| Name |"
    /\ UNCHANGED <<generated_sql, executed, tool_err>>

\* result.to_markdown raises
RenderRaise ==
    /\ ToolOnly
    /\ tool_pc = "render"
    /\ ToolCaught([type |-> "ImportError", msg |-> "Missing optional dependency tabulate"])
    /\ UNCHANGED <<generated_sql, executed>>

ToolNext ==
    \/ DatastoreSetupOk
    \/ DatastoreSetupRaise
    \/ SessionOk
    \/ SessionNoAppContext
    \/ SessionRaise
    \/ FallbackOk
    \/ FallbackRaise
    \/ GenerateOk
    \/ GenerateRaise
    \/ PostProcessRaise
    \/ ExecuteTable
    \/ ExecuteNone
    \/ ExecuteRaise
    \/ RenderOk
    \/ RenderRaise

\* the characters of sql before position i are outside every string literal
OutsideLiteral(sql, i) ==
    Cardinality({ j \in 1..(i - 1) : sql[j] = "'" }) % 2 = 0

\* sql has the keyword LIMIT: the whole word, in any case, not inside a
\* string literal
limit_keyword(sql) ==
    \E i \in 1..(Len(sql) - 4) :
        /\ lower(SubSeq(sql, i, i + 4)) = <<"l","i","m","i","t">>
        /\ (i = 1 \/ ~IsWordChar(sql[i - 1]))
        /\ (i + 4 = Len(sql) \/ ~IsWordChar(sql[i + 5]))
        /\ OutsideLiteral(sql, i)

\* C22: every SQL text handed to the datastore has been post-processed and
\* contains a LIMIT keyword, the model's own or the appended default.
C22_RowCap ==
    \A i \in 1..Len(executed) :
        /\ executed[i] = generated_sql
        /\ limit_keyword(executed[i])

\* the word LIMIT is in every SQL text handed to the datastore, as a keyword
\* or inside a string literal
WordLimitExecuted ==
    \A i \in 1..Len(executed) : executed[i] = generated_sql /\ has_limit(executed[i])

\* C9: the text_to_sql tool never raises; whatever step fails, it returns a
\* string to the dispatcher.
C9_ToolNeverRaises ==
    /\ tool_pc # "raised"
    /\ tool_err = NoErr

\* ------------------------------------------------------------ evaluate_response_quality
\* most fragments in a critique
MaxWords == 3

\* pieces critiques are put together from
CritiqueFragments ==
    { <<"I","m","p","r","o","v","e">>,
      <<"E","N","H","A","N","C","E">>,
      <<"b","e","t","t","e","r">>,
      <<"C","o","u","l","d">>,
      <<"b","e">>,
      <<" ">>,
      <<"s","h","o","u","l","d">>,
      <<"n","e","e","d">>,
      <<"s">>,
      <<"l","a","c","k","i","n","g">>,
      <<"M","i","s","s","i","n","g">>,
      <<"U","n","c","l","e","a","r">>,
      <<"c","o","n","f","u","s","i","n","g">>,
      <<"i","n","c","o","m","p","l","e","t","e">>,
      <<"o","k">> }

CritiqueTexts ==
    { Flatten(parts) : parts \in UNION { [1..n -> CritiqueFragments] : n \in 0..MaxWords } }

AssessIdle ==
    /\ as_pc = "idle"
    /\ as_text = <<>>
    /\ as_eval = NoEval
    /\ as_calls = 0

\* evaluate_response_quality is called; the model will answer as_text
AssessInit ==
    /\ as_pc = "input"
    /\ as_text \in CritiqueTexts
    /\ as_eval = NoEval
    /\ as_calls = 0

\* the dict evaluate_response_quality builds from the critique
evaluation_of(evaluation_text) ==
    [evaluation |-> evaluation_text,
     needs_improvement |-> assess_improvement_needed(evaluation_text)]

\* evaluate_response_quality: the model call returns the critique
EvaluateOk ==
    /\ AssessOnly
    /\ as_pc = "input"
    /\ as_calls' = as_calls + 1
    /\ as_eval' = evaluation_of(as_text)
    /\ as_pc' = "evaluated"
    /\ UNCHANGED as_text

\* evaluate_response_quality: the model call raises
EvaluateRaise ==
    /\ AssessOnly
    /\ as_pc = "input"
    /\ as_calls' = as_calls + 1
    /\ as_eval' = [evaluation |-> ErrorInEvaluation, needs_improvement |-> FALSE]
    /\ as_pc' = "failed"
    /\ UNCHANGED as_text

AssessNext == EvaluateOk \/ EvaluateRaise

\* the deficiency keywords
DeficiencyKeywords ==
    { <<"i","m","p","r","o","v","e">>,
      <<"e","n","h","a","n","c","e">>,
      <<"b","e","t","t","e","r">>,
      <<"c","o","u","l","d"," ","b","e">>,
      <<"s","h","o","u","l","d">>,
      <<"n","e","e","d","s">>,
      <<"l","a","c","k","i","n","g">>,
      <<"m","i","s","s","i","n","g">>,
      <<"u","n","c","l","e","a","r">>,
      <<"c","o","n","f","u","s","i","n","g">>,
      <<"i","n","c","o","m","p","l","e","t","e">> }

\* C12: needs_improvement is true exactly when at least one deficiency
\* keyword occurs in the lower-cased critique, and the one model call of the
\* evaluation is the only one made.
C12_KeywordDecision ==
    as_pc = "evaluated" =>
        /\ as_eval.needs_improvement =
                (\E kw \in DeficiencyKeywords : Contains(lower(as_text), kw))
        /\ as_eval.evaluation = as_text
        /\ as_calls = 1

C12_Witness ==
    /\ as_pc = "evaluated"
    /\ as_eval.needs_improvement
    /\ as_text = <<"C","o","u","l","d"," ","b","e">>

\* ------------------------------------------------------------ execute_stream
\* most chunks the model stream delivers
MaxChunks == 2
\* most tool-call deltas the model stream delivers in all
MaxDeltas == 2

\* histories of the streamed turns
StreamHistories == { <<>>, <<[role |-> "user", content |-> "q1"]>> }

\* delta.tool_calls entries (the function key is absent when it is None)
StreamDeltas ==
    { [id |-> "call_1", function |-> [name |-> "text_to_sql", arguments |-> GoodArgs]],
      [id |-> "call_2", function |-> [name |-> "text_to_sql", arguments |-> BadArgs]],
      [id |-> "call_3"] }

DeltaLists(n) == UNION { [1..k -> StreamDeltas] : k \in 0..n }

\* chunk.choices[0]: delta.content, finish_reason and delta.tool_calls (the
\* key is absent when it is None); at most n tool-call deltas
Chunks(n) ==
    { [content |-> c, finish_reason |-> f] :
        c \in {None, "tok"}, f \in {None, "stop", "length", "tool_calls"} }
    \cup { [content |-> None, finish_reason |-> "tool_calls", tool_calls |-> t] :
            t \in DeltaLists(n) }

NoChunk == [content |-> None, finish_reason |-> None]

\* the events execute_stream yields
content_event(text) == [type |-> "content", content |-> text, finish_reason |-> None]

tool_result_event(val) ==
    [type |-> "tool_result", content |-> json_dumps(val), finish_reason |-> None]

tool_error_event(msg) ==
    [type |-> "error", content |-> "Tool call error: " \o msg, finish_reason |-> "error"]

finish_event_blank(reason) == [type |-> "finish", content |-> "", finish_reason |-> None]

finish_event(reason) == [type |-> "finish", content |-> "", finish_reason |-> reason]

stream_error_event_leaky(e) ==
    [type |-> "error", content |-> e.msg, finish_reason |-> "error"]

\* the event the two outer except clauses yield for exception e
stream_error_event(e) ==
    [type |-> "error",
     content |-> IF e.type = "BadRequestError" THEN e.msg
                 ELSE "Error in fetching chat response.",
     finish_reason |-> "error"]

StreamIdle ==
    /\ s_pc = "idle"
    /\ demand = FALSE
    /\ events = <<>>
    /\ chunk = NoChunk
    /\ s_ti = 1
    /\ s_chunks = 0
    /\ s_deltas = 0
    /\ stream_open = FALSE
    /\ stream_exc = NoErr
    /\ s_err = NoErr

\* execute_stream() has returned the generator; nothing has run yet
StreamInit ==
    /\ history0 \in StreamHistories
    /\ chat_messages = history0
    /\ enable = TRUE
    /\ pc = "idle"
    /\ response = [content |-> None, finish_reason |-> "none"]
    /\ response_message = [role |-> "none"]
    /\ tool_messages = <<>>
    /\ sql_result = NoResult
    /\ ti = 1
    /\ uuid = 0
    /\ calls = <<>>
    /\ evaluation = NoEval
    /\ loop_in = NoLoopIn
    /\ loop_out = None
    /\ chat_exc = NoErr
    /\ err = NoErr
    /\ s_pc = "start"
    /\ demand = FALSE
    /\ events = <<>>
    /\ chunk = NoChunk
    /\ s_ti = 1
    /\ s_chunks = 0
    /\ s_deltas = 0
    /\ stream_open = FALSE
    /\ stream_exc = NoErr
    /\ s_err = NoErr

\* the generator is suspended or not started, and not finished
Suspended == ~demand /\ s_pc \in {"start", "iter", "tools", "after_error"}

\* the consumer calls next() on the generator
Pull ==
    /\ StreamOnly
    /\ Suspended
    /\ demand' = TRUE
    /\ UNCHANGED <<chat_messages, calls, s_pc, events, chunk, s_ti, s_chunks,
                   s_deltas, stream_open, stream_exc, s_err>>

\* the consumer stops pulling and drops the generator: GeneratorExit is
\* raised at the yield; execute_stream has no finally clause and never
\* closes response_stream, so the connection is released only if the
\* runtime finalises the stream object
Cancel ==
    /\ StreamOnly
    /\ Suspended
    /\ s_pc' = "cancelled"
    /\ stream_open' \in {stream_open, FALSE}
    /\ UNCHANGED <<chat_messages, calls, demand, events, chunk, s_ti, s_chunks,
                   s_deltas, stream_exc, s_err>>

\* yield: the event goes to the consumer and the generator is suspended
Yield(ev) ==
    /\ events' = Append(events, ev)
    /\ demand' = FALSE

\* validate() raises on the first next(): the exception reaches the consumer
StreamValidateRaise ==
    /\ StreamOnly
    /\ s_pc = "start" /\ demand
    /\ Len(chat_messages) = 0
    /\ s_pc' = "raised"
    /\ s_err' = ValidationException("Chat messages are required.")
    /\ demand' = FALSE
    /\ UNCHANGED <<chat_messages, calls, events, chunk, s_ti, s_chunks,
                   s_deltas, stream_open, stream_exc>>

\* prepare_chat_messages() raises, before the try block
StreamPrepareRaise ==
    /\ StreamOnly
    /\ s_pc = "start" /\ demand
    /\ Len(chat_messages) > 0
    /\ s_pc' = "raised"
    /\ s_err' = [type |-> "PrepareError", msg |-> "schema lookup failed"]
    /\ demand' = FALSE
    /\ UNCHANGED <<chat_messages, calls, events, chunk, s_ti, s_chunks,
                   s_deltas, stream_open, stream_exc>>

\* llm_session.chat_stream returns the stream
StreamOpenOk ==
    /\ StreamOnly
    /\ s_pc = "start" /\ demand
    /\ Len(chat_messages) > 0
    /\ calls' = Append(calls, [op |-> "chat_stream"])
    /\ stream_open' = TRUE
    /\ s_pc' = "iter"
    /\ UNCHANGED <<chat_messages, demand, events, chunk, s_ti, s_chunks,
                   s_deltas, stream_exc, s_err>>

\* llm_session.chat_stream raises
StreamOpenRaise ==
    /\ StreamOnly
    /\ s_pc = "start" /\ demand
    /\ Len(chat_messages) > 0
    /\ calls' = Append(calls, [op |-> "chat_stream"])
    /\ \E e \in ChatExceptions :
        /\ stream_exc' = e
        /\ Yield(stream_error_event(e))
    /\ s_pc' = "after_error"
    /\ UNCHANGED <<chat_messages, chunk, s_ti, s_chunks, s_deltas, stream_open, s_err>>

\* the stream raises while delivering a chunk
StreamChunkRaise ==
    /\ StreamOnly
    /\ s_pc = "iter" /\ demand
    /\ \E e \in ChatExceptions :
        /\ stream_exc' = e
        /\ Yield(stream_error_event(e))
    /\ s_pc' = "after_error"
    /\ stream_open' = FALSE
    /\ UNCHANGED <<chat_messages, calls, chunk, s_ti, s_chunks, s_deltas, s_err>>

\* the code after the yield of an except clause: the generator returns
StreamReturn ==
    /\ StreamOnly
    /\ s_pc = "after_error" /\ demand
    /\ s_pc' = "ended"
    /\ demand' = FALSE
    /\ UNCHANGED <<chat_messages, calls, events, chunk, s_ti, s_chunks, s_deltas,
                   stream_open, stream_exc, s_err>>

StreamEnd_commits ==
    /\ StreamOnly
    /\ s_pc = "iter" /\ demand
    /\ s_pc' = "ended"
    /\ stream_open' = FALSE
    /\ demand' = FALSE
    /\ chat_messages' = Append(chat_messages,
            format_message(uuid, "assistant", None, [finish_reason |-> "stop"]))
    /\ UNCHANGED <<calls, events, chunk, s_ti, s_chunks, s_deltas, stream_exc, s_err>>

\* the stream is exhausted: the for loop and the generator end
StreamEnd ==
    /\ StreamOnly
    /\ s_pc = "iter" /\ demand
    /\ s_pc' = "ended"
    /\ stream_open' = FALSE
    /\ demand' = FALSE
    /\ UNCHANGED <<chat_messages, calls, events, chunk, s_ti, s_chunks, s_deltas,
                   stream_exc, s_err>>

\* the stream can deliver chunk c now
Delivers(c) ==
    /\ s_pc = "iter" /\ demand
    /\ s_chunks < MaxChunks
    /\ c \in Chunks(MaxDeltas - s_deltas)

\* "if chunk.choices[0].delta.content"
has_content(c) == c.content # None

\* the tool calls the chunk's branch iterates over
chunk_tool_calls(c) == IF "tool_calls" \in DOMAIN c THEN c.tool_calls ELSE <<>>

\* a chunk with text: the content event
StreamContent ==
    /\ StreamOnly
    /\ \E c \in Chunks(MaxDeltas) :
        /\ Delivers(c)
        /\ has_content(c)
        /\ chunk' = c
        /\ Yield(content_event(c.content))
    /\ s_chunks' = s_chunks + 1
    /\ UNCHANGED <<chat_messages, calls, s_pc, s_ti, s_deltas, stream_open,
                   stream_exc, s_err>>

\* a chunk without text whose finish reason is not tool_calls: the finish event
StreamFinish ==
    /\ StreamOnly
    /\ \E c \in Chunks(MaxDeltas) :
        /\ Delivers(c)
        /\ ~has_content(c)
        /\ c.finish_reason \notin {None, "tool_calls"}
        /\ chunk' = c
        /\ Yield(finish_event(c.finish_reason))
    /\ s_chunks' = s_chunks + 1
    /\ UNCHANGED <<chat_messages, calls, s_pc, s_ti, s_deltas, stream_open,
                   stream_exc, s_err>>

\* a chunk with no text and no finish reason, or a tool_calls chunk with no
\* tool calls: nothing is yielded, the loop takes the next chunk
StreamSkip ==
    /\ StreamOnly
    /\ \E c \in Chunks(MaxDeltas) :
        /\ Delivers(c)
        /\ ~has_content(c)
        /\ \/ c.finish_reason = None
           \/ c.finish_reason = "tool_calls" /\ Len(chunk_tool_calls(c)) = 0
        /\ chunk' = c
    /\ s_chunks' = s_chunks + 1
    /\ UNCHANGED <<chat_messages, calls, s_pc, demand, events, s_ti, s_deltas,
                   stream_open, stream_exc, s_err>>

\* a tool_calls chunk with tool calls: the for loop over them starts
StreamToolsChunk ==
    /\ StreamOnly
    /\ \E c \in Chunks(MaxDeltas) :
        /\ Delivers(c)
        /\ ~has_content(c)
        /\ c.finish_reason = "tool_calls"
        /\ Len(chunk_tool_calls(c)) > 0
        /\ chunk' = c
        /\ s_deltas' = s_deltas + Len(c.tool_calls)
    /\ s_chunks' = s_chunks + 1
    /\ s_ti' = 1
    /\ s_pc' = "tools"
    /\ UNCHANGED <<chat_messages, calls, demand, events, stream_open, stream_exc, s_err>>

\* the for loop over the chunk's tool calls moves on
NextToolCall ==
    /\ s_ti' = s_ti + 1
    /\ s_pc' = IF s_ti = Len(chunk.tool_calls) THEN "iter" ELSE "tools"

\* the log entry of a dispatcher invocation of the streaming path
stream_invocation(i, tc, o) ==
    [op |-> "tool", index |-> i, id |-> tc.id, name |-> tc.function.name, result |-> o]

\* "if tool_call.function" is false: the tool call is passed over
StreamToolSkip ==
    /\ StreamOnly
    /\ s_pc = "tools" /\ demand
    /\ "function" \notin DOMAIN chunk.tool_calls[s_ti]
    /\ NextToolCall
    /\ UNCHANGED <<chat_messages, calls, demand, events, chunk, s_chunks, s_deltas,
                   stream_open, stream_exc, s_err>>

\* execute_tool_call returns: a content event for a str, a tool_result event otherwise
StreamToolOk ==
    /\ StreamOnly
    /\ s_pc = "tools" /\ demand
    /\ "function" \in DOMAIN chunk.tool_calls[s_ti]
    /\ JsonValid(chunk.tool_calls[s_ti].function.arguments)
    /\ \E o \in ToolOutcomes :
        /\ o.kind # "raise"
        /\ calls' = Append(calls, stream_invocation(s_ti, chunk.tool_calls[s_ti], o))
        /\ Yield(IF o.kind = "str" THEN content_event(o.val) ELSE tool_result_event(o.val))
    /\ NextToolCall
    /\ UNCHANGED <<chat_messages, chunk, s_chunks, s_deltas, stream_open,
                   stream_exc, s_err>>

StreamToolRaise_aborts ==
    /\ StreamOnly
    /\ s_pc = "tools" /\ demand
    /\ "function" \in DOMAIN chunk.tool_calls[s_ti]
    /\ ~JsonValid(chunk.tool_calls[s_ti].function.arguments)
    /\ Yield(stream_error_event([type |-> "JSONDecodeError", msg |-> "Expecting value"]))
    /\ s_pc' = "after_error"
    /\ UNCHANGED <<chat_messages, calls, chunk, s_ti, s_chunks, s_deltas, stream_open,
                   stream_exc, s_err>>

\* execute_tool_call raises (json.loads or the tool): the inner except
\* clause yields the error event and the for loop goes on
StreamToolRaise ==
    /\ StreamOnly
    /\ s_pc = "tools" /\ demand
    /\ "function" \in DOMAIN chunk.tool_calls[s_ti]
    /\ IF JsonValid(chunk.tool_calls[s_ti].function.arguments)
       THEN \E o \in ToolOutcomes :
                /\ o.kind = "raise"
                /\ calls' = Append(calls, stream_invocation(s_ti, chunk.tool_calls[s_ti], o))
                /\ Yield(tool_error_event(o.val))
       ELSE /\ Yield(tool_error_event("Expecting value"))
            /\ UNCHANGED calls
    /\ NextToolCall
    /\ UNCHANGED <<chat_messages, chunk, s_chunks, s_deltas, stream_open,
                   stream_exc, s_err>>

StreamNext ==
    \/ Pull
    \/ Cancel
    \/ StreamValidateRaise
    \/ StreamPrepareRaise
    \/ StreamOpenOk
    \/ StreamOpenRaise
    \/ StreamChunkRaise
    \/ StreamReturn
    \/ StreamEnd
    \/ StreamContent
    \/ StreamFinish
    \/ StreamSkip
    \/ StreamToolsChunk
    \/ StreamToolSkip
    \/ StreamToolOk
    \/ StreamToolRaise

\* ------------------------------------------------------------ specifications
\* one turn of execute
Init == ExecInit /\ LimIdle /\ ToolIdle /\ AssessIdle /\ StreamIdle

Next == ExecNext

Spec == Init /\ [][Next]_vars

\* ensure_limit on bounded SQL texts
InitLimit == LimInit /\ ExecIdle /\ ToolIdle /\ AssessIdle /\ StreamIdle

SpecLimit == InitLimit /\ [][LimNext]_vars

\* one run of the text_to_sql tool
InitTool == ToolInit /\ ExecIdle /\ LimIdle /\ AssessIdle /\ StreamIdle

SpecTool == InitTool /\ [][ToolNext]_vars

\* evaluate_response_quality on bounded critiques
InitAssess == AssessInit /\ ExecIdle /\ LimIdle /\ ToolIdle /\ StreamIdle

SpecAssess == InitAssess /\ [][AssessNext]_vars

\* one run of execute_stream, pulled by its consumer
InitStream == StreamInit /\ LimIdle /\ ToolIdle /\ AssessIdle

SpecStream == InitStream /\ [][StreamNext]_vars

\* ------------------------------------------------------------ properties of execute
\* the messages execute appended to the caller's list
Appended == SubSeq(chat_messages, Len(history0) + 1, Len(chat_messages))

\* the indexes of the dispatcher invocations in the call log
ToolInvocations == { i \in 1..Len(calls) : calls[i].op = "tool" }

\* the indexes of the model calls of the quality loop in the call log
LoopCalls == { i \in 1..Len(calls) : calls[i].op \in {"eval", "improve"} }

\* the model has answered (response holds its answer)
Responded == response.finish_reason # "none"

\* C1: a successful execute on a non-empty history returns the input history
\* unmodified and in order, followed by exactly one assistant message and then
\* zero or more tool messages.
C1_StrictExtension ==
    pc = "done" =>
        /\ Len(history0) > 0
        /\ Len(chat_messages) > Len(history0)
        /\ SubSeq(chat_messages, 1, Len(history0)) = history0
        /\ Appended[1].role = "assistant"
        /\ \A i \in 2..Len(Appended) : Appended[i].role = "tool"

C1_Witness ==
    /\ pc = "done"
    /\ Len(history0) = 2
    /\ Len(Appended) = 4

\* C2: after a successful execute every appended tool message carries a
\* tool_call_id that is the id of an entry of the tool_calls array of the
\* assistant message appended in the same turn.
C2_ToolCallIdsListed ==
    pc = "done" =>
        \A i \in 2..Len(Appended) :
            /\ "tool_call_id" \in DOMAIN Appended[i]
            /\ "tool_calls" \in DOMAIN Appended[1]
            /\ \E k \in 1..Len(Appended[1].tool_calls) :
                    Appended[1].tool_calls[k].id = Appended[i].tool_call_id

C2_Witness ==
    /\ pc = "done"
    /\ Len(Appended) = 3
    /\ Appended[2].tool_call_id # Appended[3].tool_call_id

\* C3 as stated: with a finish reason other than tool_calls the dispatcher is
\* never invoked, no tool message is appended, and the result is the input
\* plus one assistant message whose content is the model's content.
C3_PlainWrapsModelContent ==
    (Responded /\ response.finish_reason # "tool_calls") =>
        /\ ToolInvocations = {}
        /\ tool_messages = <<>>
        /\ pc = "done" =>
            /\ chat_messages = Append(history0, Appended[1])
            /\ Appended[1].role = "assistant"
            /\ Appended[1].content = response.content

\* C3 amended: with a finish reason other than tool_calls the dispatcher is
\* never invoked, no tool message is appended, and the result is the input
\* plus one assistant message whose content is the model's content, or the
\* text the quality loop returned when that text differs from it.
C3_PlainNoTools ==
    (Responded /\ response.finish_reason # "tool_calls") =>
        /\ ToolInvocations = {}
        /\ tool_messages = <<>>
        /\ pc = "done" =>
            /\ chat_messages = Append(history0, Appended[1])
            /\ Appended[1].role = "assistant"
            /\ Appended[1].content =
                    IF loop_out # response.content THEN loop_out ELSE response.content

C3_Witness ==
    /\ pc = "done"
    /\ response.finish_reason = "length"
    /\ "tool_calls" \in DOMAIN response
    /\ Len(response.tool_calls) = 2
    /\ loop_out = "a2"

\* C4: execute on an empty history fails with the ValidationException
\* "Chat messages are required." before any model, tool or quality-loop call.
C4_EmptyHistoryRejected ==
    Len(history0) = 0 =>
        /\ calls = <<>>
        /\ pc \in {"start", "raised"}
        /\ pc = "raised" => err = [type |-> "ValidationException",
                                   msg |-> "Chat messages are required."]

C4_Witness ==
    /\ Len(history0) = 0
    /\ pc = "raised"

\* C5: when the model chat call fails, a BadRequestError reaches the caller
\* as that same error and any other failure as the ValidationException
\* "Error in fetching chat response."; the call is the only call of the turn.
C5_ChatFailure ==
    chat_exc # NoErr =>
        /\ pc = "raised"
        /\ chat_exc.type = "BadRequestError" => err = chat_exc
        /\ chat_exc.type # "BadRequestError" =>
                err = [type |-> "ValidationException",
                       msg |-> "Error in fetching chat response."]
        /\ calls = <<[op |-> "chat"]>>
        /\ loop_in = NoLoopIn

C5_Witness ==
    /\ pc = "raised"
    /\ chat_exc.type = "RateLimitError"

\* C6: whenever execute ends with an error the caller's history is exactly
\* the input history, and no tool call after the failing one was executed.
C6_AllOrNothing ==
    pc = "raised" =>
        /\ chat_messages = history0
        /\ \A i \in ToolInvocations : calls[i].index <= ti
        /\ Cardinality(ToolInvocations) <= ti

C6_Witness ==
    /\ pc = "raised"
    /\ err.type = "ToolError"
    /\ Len(response.tool_calls) = 3
    /\ Len(tool_messages) = 1
    /\ ti = 2

\* C7: if the evaluation or the improvement call raises,
\* process_response_with_quality_improvement returns the original response
\* and execute does not fail.
C7_LoopFailureFallsBack ==
    (\E i \in LoopCalls : ~calls[i].ok) =>
        /\ pc \in {"commit", "done"}
        /\ err = NoErr
        /\ loop_out = loop_in.response
        /\ pc = "done" => Appended[1].content = response.content

C7_Witness ==
    /\ pc = "done"
    /\ loop_in.response = "a1"
    /\ \E i \in LoopCalls : calls[i].op = "improve" /\ ~calls[i].ok

\* C8: with enable_improvement = False the loop returns its input response
\* and makes neither the evaluation nor the improvement call.
C8_DisabledPassthrough ==
    /\ ~enable => LoopCalls = {}
    /\ (pc \in {"commit", "done"} /\ ~loop_in.enable_improvement) =>
            /\ LoopCalls = {}
            /\ loop_out = loop_in.response

C8_Witness ==
    /\ pc = "done"
    /\ ~loop_in.enable_improvement
    /\ loop_in.user_question = "q2"
    /\ loop_in.response = "a1"
    /\ loop_in.sql_result.kind = "str"

\* ------------------------------------------------------------ properties of execute_stream
\* the last event yielded
LastEvent == events[Len(events)]

\* the error events the inner except clause can yield
ToolErrorContents ==
    { "Tool call error: " \o m : m \in {"Expecting value", "tool failed"} }

\* C13: once a finish event has been emitted no event of any type follows it.
C13_FinishIsLast ==
    \A i \in 1..Len(events) : events[i].type = "finish" => i = Len(events)

\* the tool call at s_ti is about to fail: its arguments do not parse, or
\* the step logs a dispatcher invocation that raised
ToolFailureStep ==
    /\ s_pc = "tools"
    /\ s_ti' = s_ti + 1 \/ s_pc' # "tools"
    /\ events' # events
    /\ "function" \in DOMAIN chunk.tool_calls[s_ti]
    /\ \/ ~JsonValid(chunk.tool_calls[s_ti].function.arguments)
       \/ /\ Len(calls') = Len(calls) + 1
          /\ calls'[Len(calls')].result.kind = "raise"

\* C14: a failure inside one tool execution of the streaming path (its
\* arguments included) yields exactly one error event "Tool call error:
\* <message>" with finish_reason error and does not end the stream: the loop
\* goes on to the next tool call of the chunk, or to the next chunk.
C14_ToolFailureContinues ==
    [][ToolFailureStep =>
        /\ Len(events') = Len(events) + 1
        /\ events'[Len(events')].type = "error"
        /\ events'[Len(events')].content \in ToolErrorContents
        /\ events'[Len(events')].finish_reason = "error"
        /\ s_ti' = s_ti + 1
        /\ s_pc' = IF s_ti < Len(chunk.tool_calls) THEN "tools" ELSE "iter"
        /\ stream_open' = stream_open
        /\ stream_exc' = NoErr /\ s_err' = NoErr
        /\ chunk' = chunk]_vars

C14_Witness ==
    /\ Len(events) = 3
    /\ events[1].type = "error"
    /\ events[1].content = "Tool call error: Expecting value"
    /\ events[2].type = "content"
    /\ Len(calls) = 2
    /\ calls[2].index = 2
    /\ events[3].type = "finish"
    /\ s_chunks = 2

\* C15: a failure of the model client, when opening the stream or while
\* delivering a chunk, ends the sequence with a single error event, the last
\* one: the client's message for a BadRequestError, the fixed text for any
\* other failure, finish_reason error; no exception reaches the consumer.
C15_ClientFailureEndsStream ==
    stream_exc # NoErr =>
        /\ events # <<>>
        /\ LastEvent =
            [type |-> "error",
             content |-> IF stream_exc.type = "BadRequestError" THEN stream_exc.msg
                         ELSE "Error in fetching chat response.",
             finish_reason |-> "error"]
        /\ Cardinality({ i \in 1..Len(events) : events[i] = LastEvent }) = 1
        /\ s_pc \in {"after_error", "ended", "cancelled"}
        /\ s_err = NoErr

C15_Witness ==
    /\ stream_exc.type = "RateLimitError"
    /\ s_pc = "ended"
    /\ Len(events) = 3
    /\ events[1].type = "content"

\* C16: execute_stream never makes the evaluation or the improvement call
\* and never appends to or changes the caller's history.
C16_StreamLeavesHistory ==
    /\ chat_messages = history0
    /\ \A i \in 1..Len(calls) : calls[i].op \notin {"eval", "improve"}
    /\ loop_in = NoLoopIn

C16_Witness ==
    /\ s_pc = "ended"
    /\ enable
    /\ Len(history0) = 1
    /\ Len(events) = 2
    /\ events[1].type = "content"
    /\ events[2].type = "finish"

\* the dispatcher invocations of the call log, in the order they were made
ToolLog == SelectSeq(calls, LAMBDA c : c.op = "tool")

EvalCalls == { i \in 1..Len(calls) : calls[i].op = "eval" }

ImproveCalls == { i \in 1..Len(calls) : calls[i].op = "improve" }

\* the evaluation call c returned a critique that has one of the keywords
Flagged(c) == c.ok /\ assess_improvement_needed(c.out)

\* C18: a turn makes at most one evaluation and at most one improvement
\* call; an improvement call comes after an evaluation call that succeeded
\* and whose critique was flagged; once the loop has returned with the flag
\* on, an unflagged critique means no improvement call and the original
\* response as output, and a flagged critique followed by a successful
\* improvement call means that call's revision as output.
C18_EvaluateThenImprove ==
    /\ Cardinality(EvalCalls) <= 1
    /\ Cardinality(ImproveCalls) <= 1
    /\ \A j \in ImproveCalls : \E i \in EvalCalls : i < j /\ Flagged(calls[i])
    /\ (pc \in {"commit", "done"} /\ loop_in.enable_improvement) =>
            \E i \in EvalCalls :
                /\ ~Flagged(calls[i]) =>
                        ImproveCalls = {} /\ loop_out = loop_in.response
                /\ Flagged(calls[i]) =>
                        \E j \in ImproveCalls :
                            calls[j].ok => loop_out = calls[j].out

C18_Witness ==
    /\ pc = "done"
    /\ \E j \in ImproveCalls : calls[j].ok /\ calls[j].out = "a2"
    /\ loop_in.response = "a1"
    /\ loop_out = "a2"

\* the user-role messages of the input history
UserMessages == { i \in 1..Len(history0) : history0[i].role = "user" }

\* C21: once the quality loop has been called, the question it was handed is
\* the content of the last user-role message of the input history, or the
\* empty string if the history has none, and the response it was handed is
\* the model's content; when execute has returned, the content of the
\* committed assistant message is the text the loop returned, and the rest
\* of that message is as built from the model's response.
C21_QuestionAndContent ==
    /\ pc \in {"improve", "commit", "done"} =>
        /\ IF UserMessages = {}
           THEN loop_in.user_question = ""
           ELSE \E i \in UserMessages :
                    /\ \A j \in UserMessages : j <= i
                    /\ loop_in.user_question = history0[i].content
        /\ loop_in.response = response.content
    /\ pc = "done" =>
        /\ Appended[1].content = loop_out
        /\ Appended[1].role = "assistant"
        /\ Appended[1].finish_reason = response.finish_reason

C21_Witness ==
    /\ pc = "done"
    /\ Len(history0) = 2
    /\ history0[1] = [role |-> "user", content |-> "q1"]
    /\ history0[2] = [role |-> "user", content |-> "q2"]
    /\ loop_in.user_question = "q2"
    /\ response.content = "a1"
    /\ loop_out = "a2"
    /\ Appended[1].content = "a2"

\* C19: once the consumer has stopped pulling and dropped the sequence, no
\* further event is produced, no further tool call is executed, no event
\* is delivered again, and the model stream has been released.
C19_CancelStopsAndReleases ==
    [][/\ s_pc = "cancelled" => UNCHANGED <<events, calls>>
       /\ ~demand /\ ~demand' => UNCHANGED <<events, calls>>
       /\ s_pc' = "cancelled" => ~stream_open']_vars

\* C20: every event has one of the four types; content and tool_result
\* events have no finish_reason, error events have finish_reason error, and
\* a finish event has the finish reason of the chunk that caused it, which
\* is never tool_calls.
C20_EventShapes ==
    /\ \A i \in 1..Len(events) :
        /\ events[i].type \in {"content", "tool_result", "finish", "error"}
        /\ events[i].type \in {"content", "tool_result"} => events[i].finish_reason = None
        /\ events[i].type = "error" => events[i].finish_reason = "error"
        /\ events[i].type = "finish" =>
                events[i].finish_reason \notin {None, "tool_calls", "error"}
    /\ (events # <<>> /\ LastEvent.type = "finish" /\ ~demand /\ s_pc = "iter") =>
            LastEvent.finish_reason = chunk.finish_reason

C20_Witness ==
    /\ Len(events) = 3
    /\ events[1].type = "tool_result"
    /\ events[2].type = "error"
    /\ events[3].type = "finish"
    /\ events[3].finish_reason = "length"

====
